---- MODULE Spec2Model ----
(***************************************************************************)
(* serde_variant: a name-only codec.  The encoder (to_str) turns a value   *)
(* into the declared name of its type or enum variant; the decoder         *)
(* (from_str, Deserializer) rebuilds a payload-free value from that name.  *)
(*                                                                         *)
(* The repository holds two snapshots of the codec.  'crate = "modules"'   *)
(* is the split crate of src/src/ser.rs, src/src/de.rs, src/src/error.rs;  *)
(* 'crate = "legacy"' is the single-file crate of src/src/lib.rs.  Rust    *)
(* strings are TLA+ strings, compared byte for byte.                       *)
(***************************************************************************)
EXTENDS Integers, Sequences, FiniteSets, TLC

VARIABLES
  pc,          \* what the single thread of control did last
  crate,       \* the snapshot that was built
  log,         \* the calls of the current chain (each fed the one before's output)
  ser_value,   \* to_str: the value handed to the encoder
  ser_self,    \* TupleVariantSerializer.0 / StructVariantSerializer.0
  ser_fields,  \* number of serialize_field calls on the variant serializer
  ser_field_result,  \* the outcome of the last serialize_field call
  ser_result,  \* to_str: the outcome
  value,       \* from_str / Deserializer::new: the string handed in
  target,      \* the type E whose Deserialize impl drives the decoder
  input,       \* Deserializer.input, the remaining input
  before,      \* Deserializer.input as it was when the last request began
  requests,    \* number of decode requests made on the Deserializer instance
  de_result,   \* the outcome of the last E::deserialize(&mut deserializer)
  result       \* from_str: the outcome

vars == <<pc, crate, log, ser_value, ser_self, ser_fields, ser_field_result, ser_result,
          value, target, before, input, requests, de_result, result>>

(***************************************************************************)
(* Bounds of the model.                                                    *)
(***************************************************************************)
MaxPayload == 1      \* payload values are 0..MaxPayload
MaxOptionDepth == 2  \* nesting depth of Some(..) around an encoded value
MaxFields == 2       \* field visits made on one variant serializer
MaxRequests == 2     \* decode requests made on one Deserializer instance
MaxChain == 3        \* calls in one chain (encode, decode the name, encode again)

Payloads == 0..MaxPayload

Crates == {"modules", "legacy"}

(***************************************************************************)
(* Results.  A Rust call returns Ok(v) or Err(e), or aborts by panicking.  *)
(***************************************************************************)
Ok(v) == [tag |-> "Ok", val |-> v]
Err(e) == [tag |-> "Err", err |-> e]
Panic(m) == [tag |-> "Panic", msg |-> m]
NoResult == [tag |-> "-"]

(***************************************************************************)
(* error.rs: the error taxonomy of the split crate.                        *)
(***************************************************************************)
Message(msg) == [code |-> "Message", msg |-> msg]
UnsupportedOperation(direction, operation) ==
  [code |-> "UnsupportedOperation", direction |-> direction, operation |-> operation]
InvalidType(unexpected, expected) ==
  [code |-> "InvalidType", unexpected |-> unexpected, expected |-> expected]
InvalidVariantName(received, allowed) ==
  [code |-> "InvalidVariantName", received |-> received, allowed |-> allowed]
TrailingCharacters == [code |-> "TrailingCharacters"]

\* impl ser::Error for Error: custom
ser_custom(msg) == Message(msg)

\* impl de::Error for Error: custom
de_custom(msg) == Message(msg)

\* impl de::Error for Error: unknown_variant; 'expected' is copied name by
\* name, in order, into 'allowed'.
unknown_variant_reversed(variant, expected) ==
  InvalidVariantName(variant,
    [i \in 1..Len(expected) |-> expected[Len(expected) + 1 - i]])
unknown_variant(variant, expected) ==
  InvalidVariantName(variant, [i \in 1..Len(expected) |-> expected[i]])

\* impl de::Error for Error: invalid_type
invalid_type(unexp, exp) == InvalidType(unexp, exp)

(***************************************************************************)
(* lib.rs: the errors of the single-file crate.                            *)
(***************************************************************************)
UnsupportedType(method) == [code |-> "UnsupportedType", method |-> method]
lib_InvalidVariantName(name) == [code |-> "lib_InvalidVariantName", name |-> name]

\* impl ser::Error for UnsupportedType: custom
lib_ser_custom(method) == UnsupportedType(method)

StartsWith(s, prefix) ==
  Len(s) >= Len(prefix) /\ SubSeq(s, 1, Len(prefix)) = prefix

\* impl de::Error for DeserializationError: custom
lib_de_custom_loose(msg) ==
  IF StartsWith(msg, "serialize")
    THEN UnsupportedType(msg)
    ELSE lib_InvalidVariantName(msg)
lib_de_custom(msg) ==
  IF StartsWith(msg, "serialize_")
    THEN UnsupportedType(msg)
    ELSE lib_InvalidVariantName(msg)

(***************************************************************************)
(* The types the framework knows (the derive declarations).  A rename      *)
(* override is <<name>>, no override is <<>>.                              *)
(***************************************************************************)
Variant(ident, rename, shape, len) ==
  [ident |-> ident, rename |-> rename, shape |-> shape, len |-> len]

TypeIds == {"Foo", "Bar", "BarRenamed", "BarNewtype",
            "FooUnit", "FooNewtype", "FooTuple", "FooDe", "FooStruct"}

TypeDecl(ty) ==
  CASE ty = "Foo" ->
         [kind |-> "unit_struct", ident |-> "Foo", rename |-> <<>>, variants |-> <<>>]
    [] ty = "Bar" ->
         [kind |-> "unit_struct", ident |-> "Bar", rename |-> <<>>, variants |-> <<>>]
    [] ty = "BarRenamed" ->
         [kind |-> "unit_struct", ident |-> "Bar", rename |-> <<"BAR">>, variants |-> <<>>]
    [] ty = "BarNewtype" ->
         [kind |-> "newtype_struct", ident |-> "Bar", rename |-> <<>>, variants |-> <<>>]
    [] ty = "FooUnit" ->
         [kind |-> "enum", ident |-> "Foo", rename |-> <<>>,
          variants |-> << Variant("Var1", <<>>, "unit", 0),
                          Variant("Var2", <<"VAR2">>, "unit", 0) >>]
    [] ty = "FooNewtype" ->
         [kind |-> "enum", ident |-> "Foo", rename |-> <<>>,
          variants |-> << Variant("Var1", <<>>, "newtype", 1),
                          Variant("Var2", <<"VAR2">>, "newtype", 1) >>]
    [] ty = "FooTuple" ->
         [kind |-> "enum", ident |-> "Foo", rename |-> <<>>,
          variants |-> << Variant("BAz", <<>>, "tuple", 2),
                          Variant("Var", <<"VAR">>, "tuple", 3) >>]
    [] ty = "FooDe" ->
         [kind |-> "enum", ident |-> "Foo", rename |-> <<>>,
          variants |-> << Variant("BAz", <<>>, "newtype", 1),
                          Variant("Var", <<"VAR">>, "tuple", 3) >>]
    [] ty = "FooStruct" ->
         [kind |-> "enum", ident |-> "Foo", rename |-> <<>>,
          variants |-> << Variant("Dot", <<>>, "unit", 0),
                          Variant("Rect", <<"RECT">>, "struct", 2) >>]

\* The name the derive hands to the codec: the rename override when there is
\* one, the Rust identifier otherwise.
DeclaredName(d) == IF d.rename = <<>> THEN d.ident ELSE d.rename[1]

\* The VARIANTS constant of a derived enum: the declared names, in order.
VARIANTS(ty) ==
  LET Names(vs) == [i \in 1..Len(vs) |-> DeclaredName(vs[i])]
  IN Names(TypeDecl(ty).variants)

(***************************************************************************)
(* The values handed to the encoder.  'kind' is the shape the value's      *)
(* Serialize impl announces; variant_index counts from 0 as serde does.    *)
(***************************************************************************)
Integers8to64 == {"i8", "i16", "i32", "i64", "u8", "u16", "u32", "u64"}
Integers128 == {"i128", "u128"}
IntegerKinds == Integers8to64 \cup Integers128
OtherRejectedKinds == {"bool", "f32", "f64", "char", "str", "bytes", "unit",
                       "seq", "tuple", "tuple_struct", "map", "struct"}
ScalarKinds == IntegerKinds \cup OtherRejectedKinds

UnitStructValue(ty) == [kind |-> "unit_struct", ty |-> ty]
VariantValue(ty, i, p) ==
  [kind |-> "variant", ty |-> ty, variant_index |-> i, payload |-> p]

FlatValues ==
  [kind : ScalarKinds, payload : Payloads]
    \cup {[kind |-> "none"]}
    \cup {UnitStructValue(ty) : ty \in {t \in TypeIds : TypeDecl(t).kind = "unit_struct"}}
    \cup {[kind |-> "newtype_struct", ty |-> ty, payload |-> p] :
            ty \in {t \in TypeIds : TypeDecl(t).kind = "newtype_struct"}, p \in Payloads}
    \cup UNION {
           UNION { {VariantValue(ty, i - 1, p) :
                      p \in IF TypeDecl(ty).variants[i].shape = "unit" THEN {0} ELSE Payloads}
                   : i \in 1..Len(TypeDecl(ty).variants) }
           : ty \in {t \in TypeIds : TypeDecl(t).kind = "enum"} }

RECURSIVE ValuesOfDepth(_)
ValuesOfDepth(d) ==
  IF d = 0 THEN FlatValues
  ELSE LET below == ValuesOfDepth(d - 1)
       IN below \cup {[kind |-> "some", inner |-> v] : v \in below}

Values == ValuesOfDepth(MaxOptionDepth)

\* The value inside all the Some(..) wrappers.
RECURSIVE Innermost(_)
Innermost(v) == IF v.kind = "some" THEN Innermost(v.inner) ELSE v

\* Ok(serializer): serialize_tuple_variant / serialize_struct_variant return
\* the variant serializer that holds the name.
OkSerializer(kind, name) == [tag |-> "Ok", serializer |-> kind, val |-> name]
IsSerializer(r) == r.tag = "Ok" /\ "serializer" \in DOMAIN r

(***************************************************************************)
(* ser.rs: impl ser::Serializer for &mut Serializer.                       *)
(***************************************************************************)
\* The operation tag each rejecting method puts in its error.
ser_operation ==
  [ bool |-> "bool", i8 |-> "i8", i16 |-> "i16", i32 |-> "i32", i64 |-> "i64",
    u8 |-> "u8", u16 |-> "u16", u32 |-> "u32", u64 |-> "u64",
    f32 |-> "f32", f64 |-> "f64", char |-> "char", str |-> "str",
    bytes |-> "bytes", none |-> "none", unit |-> "unit", seq |-> "seq",
    tuple |-> "tuple", tuple_struct |-> "tuple struct", map |-> "map",
    struct |-> "struct", collect_str |-> "collect str" ]

\* serialize_bool .. serialize_struct, collect_str: the rejecting methods.
serialize_rejected_as_message(method) == Err(ser_custom(ser_operation[method]))
serialize_rejected(method) ==
  Err(UnsupportedOperation("Serialization", ser_operation[method]))

\* serialize_i128 / serialize_u128 are not defined by the impl: the trait's
\* provided methods run, which build their error with Error::custom.
serialize_128(method) == Err(ser_custom(method \o " is not supported"))

serialize_unit_struct(name) == Ok(name)

serialize_unit_variant_type_name(name, variant_index, variant) == Ok(name)
serialize_unit_variant(name, variant_index, variant) == Ok(variant)

serialize_newtype_struct_visiting(name, v) == serialize_rejected("u64")
serialize_newtype_struct(name, v) == Ok(name)

serialize_newtype_variant_type_name(name, variant_index, variant, v) == Ok(name)
serialize_newtype_variant(name, variant_index, variant, v) == Ok(variant)

serialize_tuple_variant(name, variant_index, variant, len) ==
  OkSerializer("TupleVariantSerializer", variant)

serialize_struct_variant(name, variant_index, variant, len) ==
  OkSerializer("StructVariantSerializer", variant)

\* TupleVariantSerializer / StructVariantSerializer: serialize_field leaves
\* self untouched and returns Ok(()); end returns self.0.
FieldOut(res, self0) == [res |-> res, self |-> self0]

TupleVariantSerializer_serialize_field(self0, v) ==
  FieldOut(Ok([kind |-> "unit"]), self0)
TupleVariantSerializer_end(self0) == Ok(self0)

StructVariantSerializer_serialize_field_keying(self0, key, v) ==
  FieldOut(Ok([kind |-> "unit"]), key)
StructVariantSerializer_serialize_field(self0, key, v) ==
  FieldOut(Ok([kind |-> "unit"]), self0)
StructVariantSerializer_end(self0) == Ok(self0)

(***************************************************************************)
(* lib.rs: impl ser::Serializer for &mut Serializer (single-file crate).   *)
(***************************************************************************)
lib_method ==
  [ bool |-> "serialize_bool", i8 |-> "serialize_i8", i16 |-> "serialize_i16",
    i32 |-> "serialize_i32", i64 |-> "serialize_i64", u8 |-> "serialize_u8",
    u16 |-> "serialize_u16", u32 |-> "serialize_u32", u64 |-> "serialize_u64",
    f32 |-> "serialize_f32", f64 |-> "serialize_f64", char |-> "serialize_char",
    str |-> "serialize_str", bytes |-> "serialize_bytes", none |-> "serialize_none",
    unit |-> "serialize_unit", seq |-> "serialize_seq", tuple |-> "serialize_tuple",
    tuple_struct |-> "serialize_tuple_struct", map |-> "serialize_map",
    struct |-> "serialize_struct", collect_str |-> "collect_str" ]

lib_serialize_rejected(method) == Err(lib_ser_custom(lib_method[method]))
lib_serialize_128(method) == Err(lib_ser_custom(method \o " is not supported"))
lib_serialize_unit_struct(name) == Ok(name)
lib_serialize_unit_variant(name, variant_index, variant) == Ok(variant)
lib_serialize_newtype_struct(name, v) == Ok(name)
lib_serialize_newtype_variant(name, variant_index, variant, v) == Ok(variant)
lib_serialize_tuple_variant(name, variant_index, variant, len) ==
  OkSerializer("TupleVariantSerializer", variant)
lib_serialize_struct_variant(name, variant_index, variant, len) ==
  OkSerializer("StructVariantSerializer", variant)
lib_TupleVariantSerializer_serialize_field(self0, v) ==
  FieldOut(Ok([kind |-> "unit"]), self0)
lib_TupleVariantSerializer_end(self0) == Ok(self0)
lib_StructVariantSerializer_serialize_field(self0, key, v) ==
  FieldOut(Ok([kind |-> "unit"]), self0)
lib_StructVariantSerializer_end(self0) == Ok(self0)

(***************************************************************************)
(* value.serialize(&mut serializer): the Serialize impl of the value picks *)
(* the one method of its shape and passes the declared names.              *)
(***************************************************************************)
RECURSIVE Serialize_serialize(_, _)

\* serialize_some (both crates): value.serialize(self)
serialize_some_rejected(c, v) == Err(UnsupportedOperation("Serialization", "some"))
serialize_some(c, v) == Serialize_serialize(c, v)

Serialize_variant(c, v) ==
  LET m == c = "modules"
      Call(var, name, variant) ==
        CASE var.shape = "unit" ->
               IF m THEN serialize_unit_variant(name, v.variant_index, variant)
                    ELSE lib_serialize_unit_variant(name, v.variant_index, variant)
          [] var.shape = "newtype" ->
               IF m THEN serialize_newtype_variant(name, v.variant_index, variant, v.payload)
                    ELSE lib_serialize_newtype_variant(name, v.variant_index, variant, v.payload)
          [] var.shape = "tuple" ->
               IF m THEN serialize_tuple_variant(name, v.variant_index, variant, var.len)
                    ELSE lib_serialize_tuple_variant(name, v.variant_index, variant, var.len)
          [] var.shape = "struct" ->
               IF m THEN serialize_struct_variant(name, v.variant_index, variant, var.len)
                    ELSE lib_serialize_struct_variant(name, v.variant_index, variant, var.len)
      Of(d) == Call(d.variants[v.variant_index + 1], DeclaredName(d),
                    DeclaredName(d.variants[v.variant_index + 1]))
  IN Of(TypeDecl(v.ty))

Serialize_serialize(c, v) ==
  LET m == c = "modules"
  IN CASE v.kind = "some" -> serialize_some(c, v.inner)
       [] v.kind = "none" ->
            IF m THEN serialize_rejected("none") ELSE lib_serialize_rejected("none")
       [] v.kind = "unit_struct" ->
            IF m THEN serialize_unit_struct(DeclaredName(TypeDecl(v.ty)))
                 ELSE lib_serialize_unit_struct(DeclaredName(TypeDecl(v.ty)))
       [] v.kind = "newtype_struct" ->
            IF m THEN serialize_newtype_struct(DeclaredName(TypeDecl(v.ty)), v.payload)
                 ELSE lib_serialize_newtype_struct(DeclaredName(TypeDecl(v.ty)), v.payload)
       [] v.kind = "variant" -> Serialize_variant(c, v)
       [] v.kind \in Integers128 ->
            IF m THEN serialize_128(v.kind) ELSE lib_serialize_128(v.kind)
       [] OTHER ->
            IF m THEN serialize_rejected(v.kind) ELSE lib_serialize_rejected(v.kind)

(***************************************************************************)
(* The decoder.  A request is E::deserialize(&mut deserializer) for a      *)
(* target E; the Deserialize impl of E picks the request method and hands  *)
(* it E's visitor.  Every request operator takes the Deserializer's input  *)
(* and returns the outcome with the input it leaves behind.                *)
(***************************************************************************)
Out(res, inp) == [res |-> res, input |-> inp]

\* The targets whose request the split crate rejects by name.
RejectedTargets ==
  {"bool", "i8", "i16", "i32", "i64", "i128", "u8", "u16", "u32", "u64", "u128",
   "f32", "f64", "char", "bytes", "byte_buf", "seq", "map", "tuple", "struct",
   "tuple_struct", "any", "ignored_any"}

Targets == TypeIds \cup {"()", "String", "&str", "Option"} \cup RejectedTargets

Visitor(v, ty) == [v |-> v, ty |-> ty]

\* Visitor::expecting, as the visitor of each target words it.
expecting(vis) ==
  CASE vis.v = "UnitStruct" -> "unit struct " \o TypeDecl(vis.ty).ident
    [] vis.v = "NewtypeStruct" -> "tuple struct " \o TypeDecl(vis.ty).ident
    [] vis.v = "Enum" -> "enum " \o TypeDecl(vis.ty).ident
    [] vis.v = "Field" -> "variant identifier"
    [] vis.v = "Unit" -> "unit"
    [] vis.v = "String" -> "a string"
    [] vis.v = "Str" -> "a borrowed string"
    [] vis.v = "Option" -> "option"

\* de::Error::unknown_variant and invalid_type as DeserializationError has
\* them: the trait's provided methods, which word a message for custom.
\* (The grave accents of the messages are written as apostrophes here.)
RECURSIVE Quoted(_, _)
Quoted(names, i) ==
  IF i > Len(names) THEN ""
  ELSE "'" \o names[i] \o "'" \o (IF i < Len(names) THEN ", " ELSE "") \o Quoted(names, i + 1)

OneOf(names) ==
  CASE Len(names) = 1 -> "'" \o names[1] \o "'"
    [] Len(names) = 2 -> "'" \o names[1] \o "' or '" \o names[2] \o "'"
    [] OTHER -> "one of " \o Quoted(names, 1)

lib_unknown_variant(variant, expected) ==
  IF Len(expected) = 0
    THEN lib_de_custom("unknown variant '" \o variant \o "', there are no variants")
    ELSE lib_de_custom("unknown variant '" \o variant \o "', expected " \o OneOf(expected))

lib_invalid_type(unexp, exp) ==
  lib_de_custom("invalid type: " \o unexp \o ", expected " \o exp)

Error_unknown_variant(c, variant, expected) ==
  IF c = "modules" THEN unknown_variant(variant, expected)
                   ELSE lib_unknown_variant(variant, expected)

Error_invalid_type(c, unexp, exp) ==
  IF c = "modules" THEN invalid_type(unexp, exp) ELSE lib_invalid_type(unexp, exp)

\* The index (from 0) of the variant whose declared name is s, or -1.
VariantIndex(ty, s) ==
  LET Hits(names) == {i \in 1..Len(names) : names[i] = s}
      First(hits) ==
        IF hits = {} THEN -1 ELSE (CHOOSE i \in hits : \A j \in hits : i <= j) - 1
  IN First(Hits(VARIANTS(ty)))

\* Visitor::visit_unit
Visitor_visit_unit(c, vis) ==
  CASE vis.v = "UnitStruct" -> Ok(UnitStructValue(vis.ty))
    [] vis.v = "Unit" -> Ok([kind |-> "unit"])
    [] OTHER -> Err(Error_invalid_type(c, "unit value", expecting(vis)))

\* Visitor::visit_borrowed_str
Visitor_visit_borrowed_str(c, vis, s) ==
  CASE vis.v = "Field" ->
         LET Found(i) == IF i >= 0 THEN Ok(i)
                         ELSE Err(Error_unknown_variant(c, s, VARIANTS(vis.ty)))
         IN Found(VariantIndex(vis.ty, s))
    [] vis.v \in {"String", "Str"} -> Ok([kind |-> "str", s |-> s])
    [] OTHER -> Err(Error_invalid_type(c, "string \"" \o s \o "\"", expecting(vis)))

(***************************************************************************)
(* de.rs: impl de::Deserializer for &mut Deserializer, and VariantName.    *)
(***************************************************************************)
de_operation ==
  [ bool |-> "bool", any |-> "any", i8 |-> "i8", i16 |-> "i16", i32 |-> "i32",
    i64 |-> "i64", i128 |-> "i128", u8 |-> "u8", u16 |-> "u16", u32 |-> "u32",
    u64 |-> "u64", u128 |-> "u128", f32 |-> "f32", f64 |-> "f64", char |-> "char",
    bytes |-> "bytes", byte_buf |-> "byte buf", tuple |-> "tuple",
    struct |-> "struct", tuple_struct |-> "tuple struct", map |-> "map",
    seq |-> "seq", ignored_any |-> "any", newtype_struct |-> "new type struct" ]

\* deserialize_bool .. deserialize_newtype_struct: the rejecting requests.
deserialize_rejected(d, method) ==
  Out(Err(UnsupportedOperation("Deserialization", de_operation[method])), d)

deserialize_unit(d, vis) == Out(Visitor_visit_unit("modules", vis), d)

deserialize_str_first_word(d, vis) ==
  Out(Visitor_visit_borrowed_str("modules", vis,
        SubSeq(d, 1, IF Len(d) < 3 THEN Len(d) ELSE 3)), "")
deserialize_str_advancing(d, vis) ==
  Out(Visitor_visit_borrowed_str("modules", vis, d), SubSeq(d, 2, Len(d)))
deserialize_str_on_success(d, vis) ==
  LET Consume(res) == Out(res, IF res.tag = "Ok" THEN "" ELSE d)
  IN Consume(Visitor_visit_borrowed_str("modules", vis, d))
deserialize_str_keeping(d, vis) == Out(Visitor_visit_borrowed_str("modules", vis, d), d)
deserialize_str(d, vis) == Out(Visitor_visit_borrowed_str("modules", vis, d), "")
deserialize_string(d, vis) == deserialize_str(d, vis)
deserialize_identifier(d, vis) == deserialize_str(d, vis)

deserialize_unit_struct_prefix(d, name, vis) ==
  IF StartsWith(d, name)
    THEN Out(Visitor_visit_unit("modules", vis), "")
    ELSE Out(Err(InvalidType(d, name)), d)
deserialize_unit_struct(d, name, vis) ==
  IF d = name
    THEN Out(Visitor_visit_unit("modules", vis), "")
    ELSE Out(Err(InvalidType(d, name)), d)

\* EnumAccess for VariantName: variant_seed; the seed is the enum's variant
\* identifier, which asks for deserialize_identifier.
variant_seed(d, ty) == deserialize_identifier(d, Visitor("Field", ty))

\* VariantAccess for VariantName
unit_variant == Ok([kind |-> "unit"])
newtype_variant_seed_accepting == Ok([kind |-> "unit"])
newtype_variant_seed ==
  Err(UnsupportedOperation("Deserialization", "new type variant"))
tuple_variant == Err(UnsupportedOperation("Deserialization", "tuple variant"))
struct_variant == Err(UnsupportedOperation("Deserialization", "struct variant"))

(***************************************************************************)
(* lib.rs: impl de::Deserializer for &mut Deserializer, and VariantName    *)
(* (single-file crate).                                                    *)
(***************************************************************************)
\* unimplemented!(): the call panics.
lib_deserialize_unimplemented(d) == Out(Panic("not implemented"), d)

lib_deserialize_str(d, vis) == Out(Visitor_visit_borrowed_str("legacy", vis, d), "")
lib_deserialize_string(d, vis) == lib_deserialize_str(d, vis)
lib_deserialize_identifier(d, vis) == lib_deserialize_str(d, vis)

lib_variant_seed(d, ty) == lib_deserialize_identifier(d, Visitor("Field", ty))

lib_unit_variant == Ok([kind |-> "unit"])
lib_newtype_variant_seed == Panic("not implemented: newtype")
lib_tuple_variant == Panic("not implemented: tuple")
lib_struct_variant == Panic("not implemented: struct")

(***************************************************************************)
(* Visitor::visit_enum of a derived enum: read the variant identifier      *)
(* through the access, then declare the payload shape of that variant.     *)
(* Any other visitor keeps the provided method, which reads nothing.       *)
(***************************************************************************)
VariantAccess(c, shape) ==
  LET m == c = "modules"
  IN CASE shape = "unit" -> IF m THEN unit_variant ELSE lib_unit_variant
       [] shape = "newtype" -> IF m THEN newtype_variant_seed ELSE lib_newtype_variant_seed
       [] shape = "tuple" -> IF m THEN tuple_variant ELSE lib_tuple_variant
       [] shape = "struct" -> IF m THEN struct_variant ELSE lib_struct_variant

Visitor_visit_enum(c, vis, d) ==
  IF vis.v = "Enum"
    THEN LET Declared(read, declared) ==
               IF declared.tag = "Ok"
                 THEN Out(Ok(VariantValue(vis.ty, read.res.val, 0)), read.input)
                 ELSE Out(declared, read.input)
             Read(read) ==
               IF read.res.tag # "Ok" THEN read
               ELSE Declared(read,
                      VariantAccess(c, TypeDecl(vis.ty).variants[read.res.val + 1].shape))
         IN Read(IF c = "modules" THEN variant_seed(d, vis.ty)
                                  ELSE lib_variant_seed(d, vis.ty))
    ELSE Out(Err(Error_invalid_type(c, "enum", expecting(vis))), d)

\* de.rs deserialize_enum: the input is copied before the visitor runs, and
\* any error of the visitor is replaced by unknown_variant.
deserialize_enum_late_copy(d, name, variants, vis) ==
  LET map_err(visited) ==
        IF visited.res.tag = "Err"
          THEN Out(Err(unknown_variant(visited.input, variants)), visited.input)
          ELSE visited
  IN map_err(Visitor_visit_enum("modules", vis, d))
deserialize_enum(d, name, variants, vis) ==
  LET variant == d
      map_err(visited) ==
        IF visited.res.tag = "Err"
          THEN Out(Err(unknown_variant(variant, variants)), visited.input)
          ELSE visited
  IN map_err(Visitor_visit_enum("modules", vis, d))

deserialize_option(d, vis) == Visitor_visit_enum("modules", vis, d)

\* lib.rs deserialize_enum / deserialize_option: the visitor's outcome as is.
lib_deserialize_enum(d, name, variants, vis) == Visitor_visit_enum("legacy", vis, d)
lib_deserialize_option(d, vis) == Visitor_visit_enum("legacy", vis, d)

(***************************************************************************)
(* E::deserialize(&mut deserializer): the Deserialize impl of the target   *)
(* picks the one request of its shape.                                     *)
(***************************************************************************)
\* struct Bar(u64): the wrapped type of the newtype struct.
NewtypeInner(ty) == "u64"

RECURSIVE Deserialize_deserialize(_, _, _)

\* Visitor::visit_newtype_struct: the visitor of a newtype struct decodes the
\* wrapped type from the same deserializer; any other visitor keeps the
\* provided method.
Visitor_visit_newtype_struct(c, vis, d) ==
  IF vis.v = "NewtypeStruct"
    THEN LET Wrap(inner) ==
               IF inner.res.tag = "Ok"
                 THEN Out(Ok([kind |-> "newtype_struct", ty |-> vis.ty,
                              payload |-> inner.res.val]), inner.input)
                 ELSE inner
         IN Wrap(Deserialize_deserialize(c, NewtypeInner(vis.ty), d))
    ELSE Out(Err(Error_invalid_type(c, "newtype struct", expecting(vis))), d)

\* lib.rs deserialize_unit_struct / deserialize_newtype_struct
lib_deserialize_unit_struct(d, name, vis) == Visitor_visit_newtype_struct("legacy", vis, d)
lib_deserialize_newtype_struct(d, name, vis) == Visitor_visit_newtype_struct("legacy", vis, d)

Deserialize_type(c, t, d) ==
  LET m == c = "modules"
      Request(kind, name) ==
        CASE kind = "unit_struct" ->
               IF m THEN deserialize_unit_struct(d, name, Visitor("UnitStruct", t))
                    ELSE lib_deserialize_unit_struct(d, name, Visitor("UnitStruct", t))
          [] kind = "newtype_struct" ->
               IF m THEN deserialize_rejected(d, "newtype_struct")
                    ELSE lib_deserialize_newtype_struct(d, name, Visitor("NewtypeStruct", t))
          [] kind = "enum" ->
               IF m THEN deserialize_enum(d, name, VARIANTS(t), Visitor("Enum", t))
                    ELSE lib_deserialize_enum(d, name, VARIANTS(t), Visitor("Enum", t))
  IN Request(TypeDecl(t).kind, DeclaredName(TypeDecl(t)))

Deserialize_deserialize(c, t, d) ==
  LET m == c = "modules"
  IN CASE t \in TypeIds -> Deserialize_type(c, t, d)
       [] t = "()" ->
            IF m THEN deserialize_unit(d, Visitor("Unit", t))
                 ELSE lib_deserialize_unimplemented(d)
       [] t = "String" ->
            IF m THEN deserialize_string(d, Visitor("String", t))
                 ELSE lib_deserialize_string(d, Visitor("String", t))
       [] t = "&str" ->
            IF m THEN deserialize_str(d, Visitor("Str", t))
                 ELSE lib_deserialize_str(d, Visitor("Str", t))
       [] t = "Option" ->
            IF m THEN deserialize_option(d, Visitor("Option", t))
                 ELSE lib_deserialize_option(d, Visitor("Option", t))
       [] t \in RejectedTargets ->
            IF m THEN deserialize_rejected(d, t)
                 ELSE lib_deserialize_unimplemented(d)

(***************************************************************************)
(* lib.rs from_str: build a Deserializer over `value`, decode E from it,   *)
(* pass a failure on, and accept the value only when the input is used up. *)
(***************************************************************************)
from_str_result_unchecked(decoded, s) == decoded.res
from_str_result(decoded, s) ==
  IF decoded.res.tag # "Ok" THEN decoded.res
  ELSE IF Len(decoded.input) = 0 THEN Ok(decoded.res.val)
  ELSE Err(lib_InvalidVariantName(s))

(***************************************************************************)
(* The state machine: one build of the crate, and one thread that makes a  *)
(* top-level call and then may feed its output to the opposite call.  The  *)
(* locals of the call before are gone when the next one starts.            *)
(***************************************************************************)
Inputs == {"", "Foo", "foo", "Foo ", " Foo", "FOo", "Foo!", "FooX",
           "Bar", "BAR", "bAR", "bar",
           "Var1", "VAR2", "Var2", "Var3", "BAz", "VAR", "Dot", "RECT"}

FieldKeys == {"x", "y"}

NoValue == [kind |-> "-"]

Entry(op, arg, t, res) == [op |-> op, arg |-> arg, target |-> t, res |-> res]

\* A decode call continues the chain when it is handed the name the encode
\* call before it returned, for the type of the value that was encoded.
ChainsDecode(s, t) ==
  /\ pc = "to_str" /\ Len(log) < MaxChain
  /\ ser_result = Ok(s)
  /\ "ty" \in DOMAIN ser_value /\ ser_value.ty = t

\* An encode call continues the chain when it is handed the value the decode
\* call before it returned.
ChainsEncode(v) ==
  /\ pc = "from_str" /\ Len(log) < MaxChain
  /\ result = Ok(v)

SerIdle ==
  /\ ser_value' = NoValue /\ ser_self' = "" /\ ser_fields' = 0
  /\ ser_field_result' = NoResult /\ ser_result' = NoResult

DeIdle ==
  /\ value' = "" /\ target' = "-" /\ before' = "" /\ input' = ""
  /\ requests' = 0 /\ de_result' = NoResult /\ result' = NoResult

Init ==
  /\ pc = "start" /\ crate \in Crates /\ log = <<>>
  /\ ser_value = NoValue /\ ser_self = "" /\ ser_fields = 0
  /\ ser_field_result = NoResult /\ ser_result = NoResult
  /\ value = "" /\ target = "-" /\ before = "" /\ input = ""
  /\ requests = 0 /\ de_result = NoResult /\ result = NoResult

\* to_str(&value): value.serialize(&mut Serializer {}).  A tuple or struct
\* variant leaves its variant serializer waiting for the fields.
to_str(v) ==
  \E r \in {Serialize_serialize(crate, v)} :
     /\ pc = "start" \/ ChainsEncode(v)
     /\ ser_value' = v
     /\ log' = Append(log, Entry("to_str", v, "-", IF IsSerializer(r) THEN NoResult ELSE r))
     /\ IF IsSerializer(r)
          THEN /\ pc' = r.serializer
               /\ ser_self' = r.val
               /\ ser_result' = NoResult
          ELSE /\ pc' = "to_str"
               /\ ser_self' = ""
               /\ ser_result' = r
     /\ ser_fields' = 0 /\ ser_field_result' = NoResult
     /\ DeIdle
     /\ UNCHANGED crate

\* SerializeTupleVariant::serialize_field(&mut self, value)
TupleVariant_serialize_field(v) ==
  \E r \in {IF crate = "modules"
               THEN TupleVariantSerializer_serialize_field(ser_self, v)
               ELSE lib_TupleVariantSerializer_serialize_field(ser_self, v)} :
     /\ pc = "TupleVariantSerializer" /\ ser_fields < MaxFields
     /\ ser_fields' = ser_fields + 1
     /\ ser_self' = r.self /\ ser_field_result' = r.res
     /\ UNCHANGED <<pc, crate, log, ser_value, ser_result,
                    value, target, before, input, requests, de_result, result>>

\* SerializeStructVariant::serialize_field(&mut self, key, value)
StructVariant_serialize_field(key, v) ==
  \E r \in {IF crate = "modules"
               THEN StructVariantSerializer_serialize_field(ser_self, key, v)
               ELSE lib_StructVariantSerializer_serialize_field(ser_self, key, v)} :
     /\ pc = "StructVariantSerializer" /\ ser_fields < MaxFields
     /\ ser_fields' = ser_fields + 1
     /\ ser_self' = r.self /\ ser_field_result' = r.res
     /\ UNCHANGED <<pc, crate, log, ser_value, ser_result,
                    value, target, before, input, requests, de_result, result>>

Finish(r) ==
  /\ pc' = "to_str"
  /\ ser_result' = r
  /\ log' = [log EXCEPT ![Len(log)].res = r]
  /\ UNCHANGED <<crate, ser_value, ser_self, ser_fields, ser_field_result,
                 value, target, before, input, requests, de_result, result>>

\* SerializeTupleVariant::end(self)
TupleVariant_end ==
  /\ pc = "TupleVariantSerializer"
  /\ Finish(IF crate = "modules" THEN TupleVariantSerializer_end(ser_self)
                                 ELSE lib_TupleVariantSerializer_end(ser_self))

\* SerializeStructVariant::end(self)
StructVariant_end ==
  /\ pc = "StructVariantSerializer"
  /\ Finish(IF crate = "modules" THEN StructVariantSerializer_end(ser_self)
                                 ELSE lib_StructVariantSerializer_end(ser_self))

\* from_str::<E>(value)
from_str(s, t) ==
  \E decoded \in {Deserialize_deserialize(crate, t, s)} :
  \E r \in {from_str_result(decoded, s)} :
     /\ pc = "start" \/ ChainsDecode(s, t)
     /\ pc' = "from_str"
     /\ log' = Append(log, Entry("from_str", s, t, r))
     /\ value' = s /\ target' = t /\ before' = s
     /\ input' = decoded.input
     /\ requests' = 1
     /\ de_result' = decoded.res
     /\ result' = r
     /\ SerIdle
     /\ UNCHANGED crate

\* Deserializer::new(input) / Deserializer::from_str(input)
Deserializer_new(s) ==
  /\ pc = "start"
  /\ pc' = "Deserializer"
  /\ value' = s /\ before' = s /\ input' = s
  /\ UNCHANGED <<crate, log, ser_value, ser_self, ser_fields, ser_field_result,
                 ser_result, target, requests, de_result, result>>

\* E::deserialize(&mut deserializer) on the standing instance
deserialize(t) ==
  \E decoded \in {Deserialize_deserialize(crate, t, input)} :
     /\ pc = "Deserializer" /\ requests < MaxRequests
     /\ de_result.tag # "Panic"
     /\ target' = t /\ before' = input
     /\ input' = decoded.input
     /\ requests' = requests + 1
     /\ de_result' = decoded.res
     /\ UNCHANGED <<pc, crate, log, ser_value, ser_self, ser_fields,
                    ser_field_result, ser_result, value, result>>

\* <E as de::Error>::custom(msg): the decode-error constructor the framework
\* calls with a message it worded.
CustomMessages ==
  {"", "serialize_", "serialize_bool", "serialize", "Serialize_bool",
   " serialize_bool", "deserialize_bool", "collect_str",
   "invalid type: unit value, expected unit struct Foo"}

Error_custom(msg) ==
  /\ pc = "start"
  /\ pc' = "custom"
  /\ value' = msg
  /\ result' = Err(IF crate = "modules" THEN de_custom(msg) ELSE lib_de_custom(msg))
  /\ UNCHANGED <<crate, log, ser_value, ser_self, ser_fields, ser_field_result,
                 ser_result, target, before, input, requests, de_result>>

Next ==
  \/ \E v \in Values : to_str(v)
  \/ \E v \in Payloads : TupleVariant_serialize_field(v)
  \/ \E key \in FieldKeys, v \in Payloads : StructVariant_serialize_field(key, v)
  \/ TupleVariant_end
  \/ StructVariant_end
  \/ \E s \in Inputs, t \in Targets : from_str(s, t)
  \/ \E s \in Inputs : Deserializer_new(s)
  \/ \E t \in Targets : deserialize(t)
  \/ \E msg \in CustomMessages : Error_custom(msg)

Spec == Init /\ [][Next]_vars

(***************************************************************************)
(* Properties.                                                             *)
(***************************************************************************)
\* What the declarations say, read off the declaration and not the codec.
EnumTypes == {t \in TypeIds : TypeDecl(t).kind = "enum"}
UnitStructTypes == {t \in TypeIds : TypeDecl(t).kind = "unit_struct"}
VariantOf(v) == TypeDecl(v.ty).variants[v.variant_index + 1]
NameOf(v) ==
  IF v.kind = "variant" THEN DeclaredName(VariantOf(v)) ELSE DeclaredName(TypeDecl(v.ty))
IsUnitValue(v) ==
  \/ v.kind = "unit_struct"
  \/ v.kind = "variant" /\ VariantOf(v).shape = "unit"
PayloadVariantNames(t) ==
  {DeclaredName(TypeDecl(t).variants[i]) :
     i \in {j \in 1..Len(TypeDecl(t).variants) : TypeDecl(t).variants[j].shape # "unit"}}
AllVariantNames(t) ==
  {DeclaredName(TypeDecl(t).variants[i]) : i \in 1..Len(TypeDecl(t).variants)}

Encoded == pc = "to_str"
Requested == pc \in {"from_str", "Deserializer"} /\ requests >= 1

C5_ResidueIsTrailingCharacters ==
  pc = "from_str"
    => /\ (de_result.tag = "Ok" /\ input = "") => result = Ok(de_result.val)
       /\ (de_result.tag = "Ok" /\ input # "") => result = Err(TrailingCharacters)
       /\ de_result.tag = "Err" => result = de_result

\* C6: in the split crate, decoding an enum from an input that is none of
\* its declared variant names fails with InvalidVariantName whose received
\* is the input as it was and whose allowed is the declared names in order.
C6_UnknownNameIsInvalidVariantName ==
  (Requested /\ crate = "modules" /\ target \in EnumTypes
     /\ before \notin AllVariantNames(target))
    => /\ de_result = Err(InvalidVariantName(before, VARIANTS(target)))
       /\ pc = "from_str" => result = de_result

C6_Witness ==
  /\ pc = "from_str" /\ crate = "modules" /\ target = "FooUnit" /\ value = "Var3"
  /\ result = Err(InvalidVariantName("Var3", <<"Var1", "VAR2">>))

\* C7: decoding an enum from the declared name of a variant that carries
\* payload returns an error: it neither succeeds nor aborts.
C7_PayloadVariantDecodeIsError ==
  (Requested /\ target \in EnumTypes /\ before \in PayloadVariantNames(target))
    => /\ de_result.tag = "Err"
       /\ pc = "from_str" => result.tag = "Err"

\* C8: encoding a shape that bears no name (bool, floats, char, str, bytes,
\* none, unit, seq, tuple, tuple struct, map, struct) fails with the
\* serializer's unsupported-operation error tagged with that shape:
\* UnsupportedOperation(Serialization, shape) in the split crate,
\* UnsupportedType{serialize_<shape>} in the single-file crate.
ShapeName(kind) == IF kind = "tuple_struct" THEN "tuple struct" ELSE kind

C8_NamelessShapesAreUnsupported ==
  (Encoded /\ ser_value.kind \in OtherRejectedKinds \cup {"none"})
    => IF crate = "modules"
         THEN ser_result = Err(UnsupportedOperation("Serialization", ShapeName(ser_value.kind)))
         ELSE ser_result = Err(UnsupportedType("serialize_" \o ser_value.kind))

C8_Witness ==
  /\ Encoded /\ crate = "modules" /\ ser_value.kind = "tuple_struct"
  /\ ser_result = Err(UnsupportedOperation("Serialization", "tuple struct"))

\* C9: encoding an integer of any width, the 128-bit widths included, fails
\* with UnsupportedOperation(Serialization, <width>), never with Message.
C9_EveryIntegerWidthIsUnsupportedOperation ==
  (Encoded /\ crate = "modules" /\ ser_value.kind \in IntegerKinds)
    => ser_result = Err(UnsupportedOperation("Serialization", ser_value.kind))

C11_UnitTypeMismatchIsInvalidType ==
  (Requested /\ target \in UnitStructTypes /\ before # DeclaredName(TypeDecl(target)))
    => /\ de_result = Err(InvalidType(before, DeclaredName(TypeDecl(target))))
       /\ input = before

\* C12: an enum request whose input names a variant that carries payload
\* returns InvalidVariantName{received: the input as it was, allowed: the
\* declared names}, not the error of the payload-shape declaration.
C12_PayloadDeclarationFailureIsRemapped ==
  (Requested /\ target \in EnumTypes /\ before \in PayloadVariantNames(target))
    => de_result = Err(InvalidVariantName(before, VARIANTS(target)))

\* C13: a request for a shape outside the name-only allow-list returns
\* Err(UnsupportedOperation(Deserialization, <shape>)); it neither succeeds
\* nor aborts.
RequestShapeName(t) ==
  CASE t = "byte_buf" -> "byte buf"
    [] t = "tuple_struct" -> "tuple struct"
    [] t = "ignored_any" -> "any"
    [] t = "BarNewtype" -> "new type struct"
    [] OTHER -> t

C13_RejectedRequestsAreUnsupportedOperation ==
  (Requested /\ target \in RejectedTargets \cup {"BarNewtype"})
    => de_result = Err(UnsupportedOperation("Deserialization", RequestShapeName(target)))

\* C14: in the split crate, encoding Some(v), nested to any depth, gives what
\* encoding v gives: the declared name when v bears a name, the rejection of
\* v's shape when it does not; encoding None fails with
\* UnsupportedOperation(Serialization, none).
ExpectedEncoding(v) ==
  CASE v.kind \in {"unit_struct", "newtype_struct", "variant"} -> Ok(NameOf(v))
    [] v.kind \in Integers128 -> Err(Message(v.kind \o " is not supported"))
    [] OTHER -> Err(UnsupportedOperation("Serialization", ShapeName(v.kind)))

C14_PresentOptionalEncodesAsWrappedValue ==
  (Encoded /\ crate = "modules")
    => /\ ser_value.kind = "some" => ser_result = ExpectedEncoding(Innermost(ser_value))
       /\ ser_value.kind = "none" =>
            ser_result = Err(UnsupportedOperation("Serialization", "none"))

C14_Witness ==
  /\ Encoded /\ crate = "modules"
  /\ ser_value = [kind |-> "some",
                  inner |-> [kind |-> "some", inner |-> VariantValue("FooUnit", 1, 0)]]
  /\ ser_result = Ok("VAR2")

\* C15: a str, String or identifier request hands the visitor the whole
\* remaining input as one string and leaves the decoder's input empty.
C15_StringRequestsHandOverWholeInput ==
  (Requested /\ de_result.tag # "Panic")
    => /\ target \in {"String", "&str"} =>
            (de_result = Ok([kind |-> "str", s |-> before]) /\ input = "")
       /\ target \in EnumTypes =>
            /\ input = ""
            /\ de_result.tag = "Ok" => NameOf(de_result.val) = before

C15_Witness ==
  /\ Requested /\ target = "String" /\ before = "Foo "
  /\ de_result = Ok([kind |-> "str", s |-> "Foo "]) /\ input = ""

\* C16: while a tuple or struct variant is being encoded, every field visit
\* returns Ok(()) and the variant serializer keeps the declared name it was
\* given; the end step returns exactly that name, however many fields were
\* visited.
IsVariantSerializing == pc \in {"TupleVariantSerializer", "StructVariantSerializer"}

C16_FieldVisitsKeepTheName ==
  /\ IsVariantSerializing =>
       /\ ser_self = NameOf(Innermost(ser_value))
       /\ ser_fields > 0 => ser_field_result = Ok([kind |-> "unit"])
  /\ (Encoded /\ Innermost(ser_value).kind = "variant"
        /\ VariantOf(Innermost(ser_value)).shape \in {"tuple", "struct"})
       => ser_result = Ok(NameOf(Innermost(ser_value)))

C16_Witness ==
  /\ Encoded /\ ser_fields = 2
  /\ ser_value = VariantValue("FooStruct", 1, 1)
  /\ ser_field_result = Ok([kind |-> "unit"])
  /\ ser_result = Ok("RECT")

\* C17: consume-once.  The input of a Deserializer is always the string it
\* was built over or the empty string; a request leaves the input as it
\* found it or empties it, and an empty input stays empty.
C17_ConsumeOnce ==
  pc \in {"from_str", "Deserializer"}
    => /\ input \in {value, ""}
       /\ requests >= 1 => (before \in {value, ""} /\ input \in {before, ""})

C17_Witness ==
  /\ pc = "Deserializer" /\ crate = "modules" /\ requests = 2
  /\ value = "Foo" /\ before = "" /\ input = ""
  /\ target = "Foo" /\ de_result = Err(InvalidType("", "Foo"))

\* C18: once the variant name is read, declaring a unit variant returns Ok
\* whatever the name, and declaring a newtype, tuple or struct variant
\* returns Err(UnsupportedOperation(Deserialization, <payload shape>)).
PayloadShapeName(shape) ==
  CASE shape = "newtype" -> "new type variant"
    [] shape = "tuple" -> "tuple variant"
    [] shape = "struct" -> "struct variant"

DeclaredShape(t, s) == TypeDecl(t).variants[VariantIndex(t, s) + 1].shape

C18_VariantAccessDeclarations ==
  (Requested /\ target \in EnumTypes /\ before \in AllVariantNames(target))
    => LET Holds(shape) ==
             VariantAccess(crate, shape) =
               IF shape = "unit"
                 THEN Ok([kind |-> "unit"])
                 ELSE Err(UnsupportedOperation("Deserialization", PayloadShapeName(shape)))
       IN Holds(DeclaredShape(target, before))

\* C19: the decode-error constructor of the single-file crate turns a
\* message that begins with "serialize_" into UnsupportedType carrying the
\* message as its method, and any other message into InvalidVariantName
\* carrying the whole message as its name.
C19_CustomClassifiesByPrefix ==
  (pc = "custom" /\ crate = "legacy")
    => IF Len(value) >= 10 /\ SubSeq(value, 1, 10) = "serialize_"
         THEN result = Err(UnsupportedType(value))
         ELSE result = Err(lib_InvalidVariantName(value))

C19_Witness ==
  /\ pc = "custom" /\ crate = "legacy" /\ value = "serialize_bool"
  /\ result = Err(UnsupportedType("serialize_bool"))

\* C20: in the split crate a failed enum request (unknown name, or a variant
\* that carries payload) leaves the decoder's input empty, while a failed
\* named-unit-type request leaves it as it was.
C20_RejectedStringStillConsumes ==
  (Requested /\ crate = "modules" /\ de_result.tag = "Err")
    => /\ target \in EnumTypes => input = ""
       /\ target \in UnitStructTypes => input = before

C20_Witness ==
  /\ pc = "Deserializer" /\ crate = "modules" /\ requests = 1
  /\ target = "FooUnit" /\ before = "Var3" /\ input = ""
  /\ de_result = Err(InvalidVariantName("Var3", <<"Var1", "VAR2">>))

\* C21: a request for an unnamed unit value returns Ok for every input,
\* compares it with nothing and leaves the decoder's input as it was, so a
\* non-empty input is still in the decoder after the request succeeded.
C21_UnitRequestSucceedsAndKeepsInput ==
  (Requested /\ target = "()")
    => /\ de_result = Ok([kind |-> "unit"])
       /\ input = before

====
